---- MODULE Spec2Model ----
(***************************************************************************)
(* Replicated planning-poker session state: the React client (App.tsx),    *)
(* the transport's local echo (socketService.send), the WebSocket relay    *)
(* (server.js), the in-process BroadcastChannel transport and the PeerJS   *)
(* mesh transport (services/socketService.ts).                             *)
(*                                                                         *)
(* Every participant is one browser page: it creates or joins a room (a    *)
(* fresh uuid user id and a fresh WebSocket per session) and may exit; a   *)
(* second session of a page is taken up in SpecRejoin.  React state        *)
(* (gameState, currentUser) and the "latest state"                         *)
(* references (gameStateRef, currentUserRef) are separate variables: the   *)
(* references are copied from the state by an effect that runs after a     *)
(* render, so handlers that run between two renders read the older value.  *)
(* A user's display name plays no part in the protocol and is left out of  *)
(* the User record.  A JS number score n is written as its decimal token.  *)
(***************************************************************************)
EXTENDS Integers, Sequences, FiniteSets, TLC

\* ---- bounds ----
NumUsers == 3
MaxIntents == 5

\* ---- program constants ----
Users == 1..NumUsers
RoomCodes == {"QK7R2"}
ChannelRooms == {"QK7R2", "M3XPA"}
NullRoom == "null"
NullTask == 0
NullUserId == 0
Undefined == "undefined"
FIBONACCI_SEQ == <<"0", "1", "2", "3", "5", "8", "13", "21", "34", "55", "?", "coffee">>
TokenDomain == {FIBONACCI_SEQ[i] : i \in 1..Len(FIBONACCI_SEQ)}
VoteChoices == {"5", "8"}
NewTitles == {"A"}
EditTitles == {"B"}

\* Number(v) / parseInt(v) on a token: the numeric tokens and their values.
NumVal == [t \in {"0", "1", "2", "3", "5", "8", "13", "21", "34", "55"} |->
             CASE t = "0" -> 0 [] t = "1" -> 1 [] t = "2" -> 2 [] t = "3" -> 3
               [] t = "5" -> 5 [] t = "8" -> 8 [] t = "13" -> 13 [] t = "21" -> 21
               [] t = "34" -> 34 [] t = "55" -> 55]
IsNaN(v) == v \notin DOMAIN NumVal
\* a JS number that is a domain value, written as its token
NumToken(n) == CHOOSE t \in DOMAIN NumVal : NumVal[t] = n

Abs(x) == IF x < 0 THEN -x ELSE x

VARIABLES
  gameState,      \* gameState[p]: React state of participant p
  gameStateRef,   \* gameStateRef[p]: gameStateRef.current
  currentUser,    \* currentUser[p]: React state, NoUser is null
  currentUserRef, \* currentUserRef[p]: currentUserRef.current
  phase,          \* "out" (login screen), "in" (socket open), "gone" (exited)
  timer,          \* timer[p]: roomIdToJoin of the pending join-fallback timeout
  down,           \* down[c]: frames from the relay to connection c, in order
  rooms,          \* relay: room code -> set of connections
  currentRoom,    \* relay: per-connection closure variable
  currentUserId,  \* relay: per-connection closure variable
  readyState,     \* relay: readyState[c], TRUE is OPEN
  usedRooms,      \* room codes generated or typed so far
  synced,         \* participants that have received a SYNC_RESPONSE since joining
  intents,        \* number of user interface actions taken so far
  budget,         \* number of user interface actions the run may take
  posting,        \* broadcast: posting[p] is the envelope tab p has posted inside
                  \* send and not yet handed to its own listeners
  peer,           \* mesh: id of the open Peer of p, NullRoom is null
  isHostUser,     \* mesh: isHostUser of the service of p
  hostConn,       \* mesh: the host at the other end of hostConn, NullUserId is null
  clientConns     \* mesh: keys of the clientConns map of p

vars == <<gameState, gameStateRef, currentUser, currentUserRef, phase, timer,
          down, rooms, currentRoom, currentUserId, readyState, usedRooms,
          synced, intents, budget, posting, peer, isHostUser, hostConn,
          clientConns>>

MeshSide == <<peer, isHostUser, hostConn, clientConns>>

NoUser == [id |-> NullUserId, isHost |-> FALSE]
EmptyState == [roomId |-> NullRoom, users |-> <<>>, votes |-> <<>>, tasks |-> <<>>,
               currentTaskId |-> NullTask, isRevealed |-> FALSE]

\* Array.prototype.filter is SelectSeq: the elements kept stay in order.

UserIds(g) == {g.users[i].id : i \in 1..Len(g.users)}
VoteKeys(g) == {g.votes[i].userId : i \in 1..Len(g.votes)}
TaskIds(g) == {g.tasks[i].id : i \in 1..Len(g.tasks)}
Hosts(g) == {g.users[i].id : i \in {j \in 1..Len(g.users) : g.users[j].isHost}}

\* ---- Vote Consensus Calculator ----

\* fibNums = FIBONACCI_SEQ.map(v => parseInt(v)).filter(n => !isNaN(n))
fibNums ==
  LET numeric == SelectSeq(FIBONACCI_SEQ, LAMBDA v : ~IsNaN(v))
  IN  [i \in 1..Len(numeric) |-> NumVal[numeric[i]]]

\* the reduce callback of getClosestFibonacci for num = sum / n (n > 0):
\* Math.abs(curr - num) < Math.abs(prev - num) ? curr : prev, with both sides
\* multiplied by n.  The quotients involved are far from the rounding error of
\* a double unless they are exact, so the comparison on rationals is the
\* comparison the code makes.
Closer_OrEqual(prev, curr, sum, n) ==
  IF Abs(curr * n - sum) <= Abs(prev * n - sum) THEN curr ELSE prev

Closer_Signed(prev, curr, sum, n) ==
  IF curr * n - sum < prev * n - sum THEN curr ELSE prev

Closer(prev, curr, sum, n) ==
  IF Abs(curr * n - sum) < Abs(prev * n - sum) THEN curr ELSE prev

RECURSIVE ReduceClosest(_, _, _, _)
ReduceClosest(rest, prev, sum, n) ==
  IF rest = <<>> THEN prev
  ELSE ReduceClosest(Tail(rest), Closer(prev, Head(rest), sum, n), sum, n)

\* getClosestFibonacci(sum / n)
getClosestFibonacci(sum, n) == ReduceClosest(Tail(fibNums), Head(fibNums), sum, n)

RECURSIVE SumSeq(_)
SumSeq(s) == IF s = <<>> THEN 0 ELSE Head(s) + SumSeq(Tail(s))

\* Object.values(prev.votes): the values in key insertion order
VoteValues(g) == [i \in 1..Len(g.votes) |-> g.votes[i].value]

Count(vs, a) == Cardinality({i \in 1..Len(vs) : vs[i] = a})

MostFrequent_Last(vs) == vs[Len(vs)]

\* votes.sort((a,b) => count(a) - count(b)).pop(): the sort is stable and
\* ascending in the occurrence count, so the element popped is the last vote,
\* in insertion order, among those whose value has the highest count.
MostFrequent(vs) ==
  LET best == {i \in 1..Len(vs) : \A j \in 1..Len(vs) : Count(vs, vs[j]) <= Count(vs, vs[i])}
      k == CHOOSE i \in best : \A j \in best : j <= i
  IN  vs[k]

FinalScore_ZeroWhenEmpty(g) ==
  LET numericStr == SelectSeq(VoteValues(g), LAMBDA v : ~IsNaN(v))
      numericVotes == [i \in 1..Len(numericStr) |-> NumVal[numericStr[i]]]
  IN  IF Len(numericVotes) > 0
      THEN NumToken(getClosestFibonacci(SumSeq(numericVotes), Len(numericVotes)))
      ELSE IF Len(g.votes) > 0 THEN MostFrequent(VoteValues(g)) ELSE "0"

\* the finalScore computed by the RESET case from the votes of state g
FinalScore(g) ==
  LET votes == VoteValues(g)
      numericStr == SelectSeq(votes, LAMBDA v : ~IsNaN(v))
      numericVotes == [i \in 1..Len(numericStr) |-> NumVal[numericStr[i]]]
  IN  IF Len(votes) > 0
      THEN IF Len(numericVotes) > 0
           THEN NumToken(getClosestFibonacci(SumSeq(numericVotes), Len(numericVotes)))
           ELSE MostFrequent(votes)
      ELSE Undefined

\* ---- Reconciliation Engine: handleMessage ----

Msg(type, roomId, senderId, payload) ==
  [type |-> type, roomId |-> roomId, senderId |-> senderId, payload |-> payload]

RoomGuardDrops_ExceptSync(gr, m) ==
  gr.roomId # NullRoom /\ m.roomId # gr.roomId /\ m.type # "SYNC_RESPONSE"

\* the room guard at the top of handleMessage; it reads the reference
RoomGuardDrops(gr, m) == gr.roomId # NullRoom /\ m.roomId # gr.roomId

\* no envelope
NoMsg == Msg("NONE", NullRoom, NullUserId, <<>>)

HasUser(users, id) == \E i \in 1..Len(users) : users[i].id = id

SyncResponseCase_KeepsUsers(g, c, gr, cr, m) ==
  [gs |-> [m.payload EXCEPT !.users = g.users], cu |-> c, out |-> <<>>]

\* case 'SYNC_RESPONSE': replace the state, then reconcile currentUser.isHost
\* with the entry of the payload that has the id read through currentUserRef
SyncResponseCase(g, c, gr, cr, m) ==
  LET found == {i \in 1..Len(m.payload.users) : m.payload.users[i].id = cr.id}
      meInState == m.payload.users[CHOOSE i \in found : \A j \in found : i <= j]
  IN  [gs |-> m.payload,
       cu |-> IF found # {} /\ cr # NoUser /\ meInState.isHost # cr.isHost
              THEN [cr EXCEPT !.isHost = meInState.isHost]
              ELSE c,
       out |-> <<>>]

\* socketService.send of a SYNC_RESPONSE from inside handleMessage: the
\* listeners are notified first (handleMessage runs again on the reply, behind
\* the state update already queued), then the reply is transmitted
SendSyncResponse(g, c, gr, cr, sync) ==
  IF RoomGuardDrops(gr, sync)
  THEN [gs |-> g, cu |-> c, out |-> <<sync>>]
  ELSE [SyncResponseCase(g, c, gr, cr, sync) EXCEPT !.out = <<sync>>]

JoinCase_AlwaysAppends(g, c, gr, cr, m) ==
  LET g1 == [g EXCEPT !.users = Append(@, m.payload)]
  IN  IF cr.isHost /\ m.payload.id # cr.id
      THEN SendSyncResponse(g1, c, gr, cr,
                            Msg("SYNC_RESPONSE", m.roomId, cr.id,
                                [gr EXCEPT !.users = Append(@, m.payload)]))
      ELSE [gs |-> g1, cu |-> c, out |-> <<>>]

JoinCase_SendsRef(g, c, gr, cr, m) ==
  LET newUser == m.payload
      g1 == IF HasUser(g.users, newUser.id) THEN g
            ELSE [g EXCEPT !.users = Append(@, newUser)]
  IN  IF cr.isHost /\ newUser.id # cr.id
      THEN SendSyncResponse(g1, c, gr, cr, Msg("SYNC_RESPONSE", m.roomId, cr.id, gr))
      ELSE [gs |-> g1, cu |-> c, out |-> <<>>]

JoinCase(g, c, gr, cr, m) ==
  LET newUser == m.payload
      g1 == IF HasUser(g.users, newUser.id) THEN g
            ELSE [g EXCEPT !.users = Append(@, newUser)]
      currentUsers == gr.users
      updatedUsers == IF HasUser(currentUsers, newUser.id) THEN currentUsers
                      ELSE Append(currentUsers, newUser)
      statePayload == [gr EXCEPT !.users = updatedUsers]
  IN  IF cr.isHost /\ newUser.id # cr.id
      THEN SendSyncResponse(g1, c, gr, cr,
                            Msg("SYNC_RESPONSE", m.roomId, cr.id, statePayload))
      ELSE [gs |-> g1, cu |-> c, out |-> <<>>]

UserLeftCase_PromotesAll(g, c, gr, cr, m) ==
  LET leftUserId == m.payload.id
      remainingUsers == SelectSeq(g.users, LAMBDA u : u.id # leftUserId)
      succession == \E i \in 1..Len(g.users) :
                       g.users[i].id = leftUserId /\ g.users[i].isHost
  IN  [gs |-> [g EXCEPT !.users = IF succession
                                  THEN [i \in 1..Len(remainingUsers) |->
                                          [remainingUsers[i] EXCEPT !.isHost = TRUE]]
                                  ELSE remainingUsers,
                        !.votes = SelectSeq(@, LAMBDA v : v.userId # leftUserId)],
       cu |-> c,
       out |-> <<>>]

UserLeftCase_KeepsVote(g, c, gr, cr, m) ==
  LET leftUserId == m.payload.id
  IN  [gs |-> [g EXCEPT !.users = SelectSeq(@, LAMBDA u : u.id # leftUserId)],
       cu |-> c,
       out |-> <<>>]

UserLeftCase(g, c, gr, cr, m) ==
  LET leftUserId == m.payload.id
      leavingHost == \E i \in 1..Len(g.users) :
                        /\ g.users[i].id = leftUserId
                        /\ \A j \in 1..(i - 1) : g.users[j].id # leftUserId
                        /\ g.users[i].isHost
      remainingUsers == SelectSeq(g.users, LAMBDA u : u.id # leftUserId)
      succession == leavingHost /\ Len(remainingUsers) > 0
      updatedUsers == IF succession
                      THEN [i \in 1..Len(remainingUsers) |->
                              IF i = 1 THEN [remainingUsers[i] EXCEPT !.isHost = TRUE]
                              ELSE remainingUsers[i]]
                      ELSE remainingUsers
  IN  [gs |-> [g EXCEPT !.users = updatedUsers,
                        !.votes = SelectSeq(@, LAMBDA v : v.userId # leftUserId)],
       cu |-> IF succession /\ updatedUsers[1].id = cr.id /\ c # NoUser
              THEN [c EXCEPT !.isHost = TRUE]
              ELSE c,
       out |-> <<>>]

PromoteUserCase(g, c, gr, cr, m) ==
  LET targetUserId == m.payload.targetUserId
  IN  [gs |-> [g EXCEPT !.users = [i \in 1..Len(g.users) |->
                                     [id |-> g.users[i].id,
                                      isHost |-> (g.users[i].id = targetUserId)]]],
       cu |-> IF cr = NoUser THEN c
              ELSE IF cr.id = targetUserId THEN [cr EXCEPT !.isHost = TRUE]
              ELSE IF cr.isHost THEN [cr EXCEPT !.isHost = FALSE]
              ELSE c,
       out |-> <<>>]

SyncRequestCase(g, c, gr, cr, m) ==
  IF cr.isHost
  THEN SendSyncResponse(g, c, gr, cr, Msg("SYNC_RESPONSE", m.roomId, cr.id, gr))
  ELSE [gs |-> g, cu |-> c, out |-> <<>>]

VoteCase_Appends(g, m) == [g EXCEPT !.votes = Append(@, m.payload)]

\* votes: { ...prev.votes, [userId]: value } keeps the position of a key
\* that is already present and appends a new key
VoteCase(g, m) ==
  LET uid == m.payload.userId
  IN  IF uid \in VoteKeys(g)
      THEN [g EXCEPT !.votes = [i \in 1..Len(@) |->
                                  IF @[i].userId = uid THEN m.payload ELSE @[i]]]
      ELSE [g EXCEPT !.votes = Append(@, m.payload)]

RevealCase(g) == [g EXCEPT !.isRevealed = TRUE]

ResetCase_NoScore(g) ==
  [g EXCEPT !.isRevealed = FALSE, !.votes = <<>>, !.currentTaskId = NullTask,
            !.tasks = [i \in 1..Len(@) |->
                         IF @[i].id = g.currentTaskId
                         THEN [@[i] EXCEPT !.status = "completed"] ELSE @[i]]]

ResetCase_ScoreOnly(g) ==
  [g EXCEPT !.isRevealed = FALSE, !.votes = <<>>, !.currentTaskId = NullTask,
            !.tasks = [i \in 1..Len(@) |->
                         IF @[i].id = g.currentTaskId
                         THEN [@[i] EXCEPT !.finalScore = FinalScore(g)] ELSE @[i]]]

ResetCase(g) ==
  LET finalScore == FinalScore(g)
      updatedTasks == IF g.currentTaskId # NullTask
                      THEN [i \in 1..Len(g.tasks) |->
                              IF g.tasks[i].id = g.currentTaskId
                              THEN [g.tasks[i] EXCEPT !.status = "completed",
                                                      !.finalScore = finalScore]
                              ELSE g.tasks[i]]
                      ELSE g.tasks
  IN  [g EXCEPT !.isRevealed = FALSE, !.votes = <<>>, !.tasks = updatedTasks,
                !.currentTaskId = NullTask]

AddTaskCase(g, m) == [g EXCEPT !.tasks = Append(@, m.payload)]

DeleteTaskCase_KeepsCurrent(g, m) ==
  [g EXCEPT !.tasks = SelectSeq(@, LAMBDA t : t.id # m.payload)]

DeleteTaskCase(g, m) ==
  [g EXCEPT !.tasks = SelectSeq(@, LAMBDA t : t.id # m.payload),
            !.currentTaskId = IF @ = m.payload THEN NullTask ELSE @]

UpdateTaskCase(g, m) ==
  [g EXCEPT !.tasks = [i \in 1..Len(@) |->
                         IF @[i].id = m.payload.id
                         THEN [@[i] EXCEPT !.title = m.payload.title] ELSE @[i]]]

SelectTaskCase_Activates(g, m) ==
  [g EXCEPT !.currentTaskId = m.payload, !.votes = <<>>, !.isRevealed = FALSE,
            !.tasks = [i \in 1..Len(@) |->
                         IF @[i].id = m.payload THEN [@[i] EXCEPT !.status = "active"]
                         ELSE @[i]]]

SelectTaskCase(g, m) ==
  [g EXCEPT !.currentTaskId = m.payload, !.votes = <<>>, !.isRevealed = FALSE]

\* handleMessage(msg) run with state g, current user c and the references
\* gr, cr: the new state, the new current user and the envelopes transmitted
handleMessage(g, c, gr, cr, m) ==
  LET only(g2) == [gs |-> g2, cu |-> c, out |-> <<>>]
  IN  IF RoomGuardDrops(gr, m) THEN only(g)
      ELSE CASE m.type = "JOIN" -> JoinCase(g, c, gr, cr, m)
             [] m.type = "USER_LEFT" -> UserLeftCase(g, c, gr, cr, m)
             [] m.type = "PROMOTE_USER" -> PromoteUserCase(g, c, gr, cr, m)
             [] m.type = "SYNC_REQUEST" -> SyncRequestCase(g, c, gr, cr, m)
             [] m.type = "SYNC_RESPONSE" -> SyncResponseCase(g, c, gr, cr, m)
             [] m.type = "VOTE" -> only(VoteCase(g, m))
             [] m.type = "REVEAL" -> only(RevealCase(g))
             [] m.type = "RESET" -> only(ResetCase(g))
             [] m.type = "ADD_TASK" -> only(AddTaskCase(g, m))
             [] m.type = "DELETE_TASK" -> only(DeleteTaskCase(g, m))
             [] m.type = "UPDATE_TASK" -> only(UpdateTaskCase(g, m))
             [] m.type = "SELECT_TASK" -> only(SelectTaskCase(g, m))
             [] OTHER -> only(g)

\* ---- relay server (server.js) ----
\* A frame written to a WebSocket reaches the relay in order and the relay
\* handles one frame at a time, so the relay's order is a total order on the
\* envelopes of all senders.  The step that writes a frame also runs the
\* relay's handler on it: a later arrival at the relay is the same run with
\* the write itself taken later, because nothing a browser does between the
\* write and the relay's handling depends on the frame being in flight.  The
\* delay that the participants can observe is the one of the relay's frames
\* to each receiver, down[c].

\* the relay's state as one value
Server == [rooms |-> rooms, currentRoom |-> currentRoom,
           currentUserId |-> currentUserId, readyState |-> readyState, down |-> down]

\* client.send on every listed connection; a frame for a browser that has
\* already closed its socket is lost
SendTo(dn, targets, m, ph) ==
  [c \in Users |-> IF c \in targets /\ ph[c] = "in" THEN Append(dn[c], m) ELSE dn[c]]

OnMessage_AllRooms(srv, c, data, ph) ==
  LET isJoin == data.type = "JOIN"
      rooms1 == IF isJoin
                THEN [r \in DOMAIN srv.rooms \cup {data.roomId} |->
                        IF r = data.roomId
                        THEN (IF r \in DOMAIN srv.rooms THEN srv.rooms[r] ELSE {}) \cup {c}
                        ELSE srv.rooms[r]]
                ELSE srv.rooms
      targets == {client \in UNION {rooms1[r] : r \in DOMAIN rooms1} :
                    client # c /\ srv.readyState[client]}
  IN  [srv EXCEPT !.rooms = rooms1,
                  !.currentRoom = IF isJoin THEN [@ EXCEPT ![c] = data.roomId] ELSE @,
                  !.currentUserId = IF isJoin THEN [@ EXCEPT ![c] = data.payload.id] ELSE @,
                  !.down = SendTo(@, targets, data, ph)]

\* ws.on("message") of connection c
OnMessage(srv, c, data, ph) ==
  LET isJoin == data.type = "JOIN"
      rooms1 == IF isJoin
                THEN [r \in DOMAIN srv.rooms \cup {data.roomId} |->
                        IF r = data.roomId
                        THEN (IF r \in DOMAIN srv.rooms THEN srv.rooms[r] ELSE {}) \cup {c}
                        ELSE srv.rooms[r]]
                ELSE srv.rooms
      targets == IF data.roomId # NullRoom /\ data.roomId \in DOMAIN rooms1
                 THEN {client \in rooms1[data.roomId] :
                         client # c /\ srv.readyState[client]}
                 ELSE {}
  IN  [srv EXCEPT !.rooms = rooms1,
                  !.currentRoom = IF isJoin THEN [@ EXCEPT ![c] = data.roomId] ELSE @,
                  !.currentUserId = IF isJoin THEN [@ EXCEPT ![c] = data.payload.id] ELSE @,
                  !.down = SendTo(@, targets, data, ph)]

\* ws.on("close") of connection c
OnClose(srv, c, ph) ==
  LET room == srv.currentRoom[c]
      closed == [srv EXCEPT !.readyState[c] = FALSE]
  IN  IF room # NullRoom /\ room \in DOMAIN srv.rooms
      THEN LET remainingClients == srv.rooms[room] \ {c}
               leaveMessage == Msg("USER_LEFT", room, "SERVER",
                                   [id |-> srv.currentUserId[c]])
           IN  IF remainingClients # {} /\ srv.currentUserId[c] # NullUserId
               THEN [closed EXCEPT
                       !.rooms[room] = remainingClients,
                       !.down = SendTo(@, {client \in remainingClients :
                                             closed.readyState[client]},
                                       leaveMessage, ph)]
               ELSE [closed EXCEPT
                       !.rooms = [r \in DOMAIN srv.rooms \ {room} |-> srv.rooms[r]]]
      ELSE closed

\* the frames of connection c, handled in order
RECURSIVE OnMessages(_, _, _, _)
OnMessages(srv, c, frames, ph) ==
  IF frames = <<>> THEN srv
  ELSE OnMessages(OnMessage(srv, c, Head(frames), ph), c, Tail(frames), ph)

SetServer(srv) ==
  /\ rooms' = srv.rooms
  /\ currentRoom' = srv.currentRoom
  /\ currentUserId' = srv.currentUserId
  /\ readyState' = srv.readyState
  /\ down' = srv.down
  /\ UNCHANGED MeshSide

ServerSide == <<rooms, currentRoom, currentUserId, readyState, down>>

\* ---- client: transport and rendering ----

\* the references of p hold the state of p: no render is pending
Fresh(p) == gameStateRef[p] = gameState[p] /\ currentUserRef[p] = currentUser[p]

\* A render follows a state update within milliseconds.  Handlers of the same
\* browser can run inside that window (two frames that arrive together, a
\* timeout that is due); no event of another browser is placed inside it, as
\* no round trip through the relay completes within one.
Quiet(p) == \A q \in Users \ {p} : Fresh(q)

\* socketService.send(m) while the state is g and the current user c:
\* notify the local listeners, then transmit on the socket when it is open
\* (srv is the relay with this connection's earlier frames handled)
Send(p, g, c, m, srv, ph) ==
  LET r == handleMessage(g, c, gameStateRef[p], currentUserRef[p], m)
  IN  /\ gameState' = [gameState EXCEPT ![p] = r.gs]
      /\ currentUser' = [currentUser EXCEPT ![p] = r.cu]
      /\ IF ph[p] = "in"
         THEN SetServer(OnMessages(srv, p, r.out \o <<m>>, ph))
         ELSE SetServer(srv)

\* the socket's onmessage: an inbound envelope reaches handleMessage
Deliver(p) ==
  /\ Quiet(p)
  /\ phase[p] = "in"
  /\ down[p] # <<>>
  /\ LET r == handleMessage(gameState[p], currentUser[p], gameStateRef[p],
                            currentUserRef[p], Head(down[p]))
     IN  /\ gameState' = [gameState EXCEPT ![p] = r.gs]
         /\ currentUser' = [currentUser EXCEPT ![p] = r.cu]
         /\ SetServer(OnMessages([Server EXCEPT !.down[p] = Tail(@)], p, r.out, phase))
  /\ synced' = IF Head(down[p]).type = "SYNC_RESPONSE" THEN synced \cup {p} ELSE synced
  /\ UNCHANGED <<gameStateRef, currentUserRef, phase, timer, usedRooms, intents, budget, posting>>

\* a render commits and its effects copy the state into the references
Render(p) ==
  /\ gameStateRef[p] # gameState[p] \/ currentUserRef[p] # currentUser[p]
  /\ gameStateRef' = [gameStateRef EXCEPT ![p] = gameState[p]]
  /\ currentUserRef' = [currentUserRef EXCEPT ![p] = currentUser[p]]
  /\ UNCHANGED <<gameState, currentUser, phase, timer, ServerSide, usedRooms, synced,
                 intents, budget, posting,
                 MeshSide>>

\* ---- client: user interface actions ----

\* a user acts on an interface that is rendered, in every browser
Intent ==
  /\ \A q \in Users : Fresh(q)
  /\ intents < budget
  /\ intents' = intents + 1
  /\ budget' = budget
  /\ posting' = posting

\* uuid(): a value no earlier call returned
uuid == intents + 1

createRoom(p, newRoomId) ==
  /\ Intent
  /\ phase[p] = "out"
  /\ \A q \in 1..(p - 1) : phase[q] # "out"
  /\ newRoomId \notin usedRooms
  /\ LET newUser == [id |-> p, isHost |-> TRUE]
         initialTasks == <<[id |-> uuid, title |-> "First User Story",
                            status |-> "active", finalScore |-> Undefined]>>
         initialState == [roomId |-> newRoomId, users |-> <<newUser>>, votes |-> <<>>,
                          tasks |-> initialTasks, currentTaskId |-> initialTasks[1].id,
                          isRevealed |-> FALSE]
     IN  Send(p, initialState, newUser, Msg("JOIN", newRoomId, newUser.id, newUser),
              [Server EXCEPT !.readyState[p] = TRUE], [phase EXCEPT ![p] = "in"])
  /\ phase' = [phase EXCEPT ![p] = "in"]
  /\ usedRooms' = usedRooms \cup {newRoomId}
  /\ UNCHANGED <<gameStateRef, currentUserRef, timer, synced>>

joinRoom(p, roomIdToJoin) ==
  /\ Intent
  /\ phase[p] = "out"
  /\ \A q \in 1..(p - 1) : phase[q] # "out"
  /\ LET newUser == [id |-> p, isHost |-> FALSE]
         g == [gameState[p] EXCEPT !.roomId = roomIdToJoin, !.users = <<newUser>>]
     IN  Send(p, g, newUser, Msg("JOIN", roomIdToJoin, newUser.id, newUser),
              [Server EXCEPT !.readyState[p] = TRUE], [phase EXCEPT ![p] = "in"])
  /\ phase' = [phase EXCEPT ![p] = "in"]
  /\ timer' = [timer EXCEPT ![p] = roomIdToJoin]
  /\ usedRooms' = usedRooms \cup {roomIdToJoin}
  /\ UNCHANGED <<gameStateRef, currentUserRef, synced>>

\* the setTimeout callback of joinRoom, 1500 ms after the join
JoinFallback(p) ==
  /\ Quiet(p)
  /\ timer[p] # NullRoom
  /\ timer' = [timer EXCEPT ![p] = NullRoom]
  /\ IF Len(gameStateRef[p].users) <= 1
     THEN /\ currentUser' = [currentUser EXCEPT ![p] =
                               IF @ = NoUser THEN NoUser ELSE [@ EXCEPT !.isHost = TRUE]]
          /\ gameState' = [gameState EXCEPT ![p].users =
                             [i \in 1..Len(gameState[p].users) |->
                                IF gameState[p].users[i].id = p
                                THEN [gameState[p].users[i] EXCEPT !.isHost = TRUE]
                                ELSE gameState[p].users[i]]]
          /\ UNCHANGED <<ServerSide, MeshSide>>
     ELSE Send(p, gameState[p], currentUser[p],
               Msg("SYNC_REQUEST", timer[p], p, <<>>), Server, phase)
  /\ UNCHANGED <<gameStateRef, currentUserRef, phase, usedRooms, synced, intents, budget, posting>>

\* the game room is on screen: the last render saw a room and a user
InGameRoom(p) ==
  /\ phase[p] = "in"
  /\ gameStateRef[p].roomId # NullRoom
  /\ currentUserRef[p] # NoUser

RenderedHost_AnyUser(p) == InGameRoom(p)

\* the values the rendered handlers close over
RenderedHost(p) == InGameRoom(p) /\ currentUserRef[p].isHost

\* an intent that only sends one envelope
SendIntent(p, type, payload) ==
  /\ Intent
  /\ Send(p, gameState[p], currentUser[p],
          Msg(type, gameStateRef[p].roomId, currentUserRef[p].id, payload), Server, phase)
  /\ UNCHANGED <<gameStateRef, currentUserRef, phase, timer, usedRooms, synced>>

exitRoom_KeepsTasks(p) ==
  /\ Intent
  /\ InGameRoom(p)
  /\ phase' = [phase EXCEPT ![p] = "gone"]
  /\ SetServer(OnClose([Server EXCEPT !.down[p] = <<>>], p, [phase EXCEPT ![p] = "gone"]))
  /\ gameState' = [gameState EXCEPT ![p] = [EmptyState EXCEPT !.tasks = gameState[p].tasks]]
  /\ currentUser' = [currentUser EXCEPT ![p] = NoUser]
  /\ UNCHANGED <<gameStateRef, currentUserRef, timer, usedRooms, synced>>

exitRoom(p) ==
  /\ Intent
  /\ InGameRoom(p)
  /\ phase' = [phase EXCEPT ![p] = "gone"]
  /\ SetServer(OnClose([Server EXCEPT !.down[p] = <<>>], p, [phase EXCEPT ![p] = "gone"]))
  /\ gameState' = [gameState EXCEPT ![p] = EmptyState]
  /\ currentUser' = [currentUser EXCEPT ![p] = NoUser]
  /\ UNCHANGED <<gameStateRef, currentUserRef, timer, usedRooms, synced>>

\* a card is enabled when the votes are hidden and the current task exists
submitVote(p, value) ==
  /\ InGameRoom(p)
  /\ ~gameStateRef[p].isRevealed
  /\ gameStateRef[p].currentTaskId \in TaskIds(gameStateRef[p])
  /\ SendIntent(p, "VOTE", [userId |-> currentUserRef[p].id, value |-> value])

\* "Reveal Cards" is shown to the host while the votes are hidden
revealVotes(p) ==
  /\ RenderedHost(p)
  /\ ~gameStateRef[p].isRevealed
  /\ SendIntent(p, "REVEAL", <<>>)

\* "Next Round" is shown to the host once the votes are revealed
resetRound(p) ==
  /\ RenderedHost(p)
  /\ gameStateRef[p].isRevealed
  /\ SendIntent(p, "RESET", <<>>)

addTask(p, title) ==
  /\ RenderedHost(p)
  /\ SendIntent(p, "ADD_TASK", [id |-> uuid, title |-> title, status |-> "pending",
                                finalScore |-> Undefined])

deleteTask(p, taskId) ==
  /\ RenderedHost(p)
  /\ taskId \in TaskIds(gameStateRef[p])
  /\ SendIntent(p, "DELETE_TASK", taskId)

updateTask(p, taskId, title) ==
  /\ RenderedHost(p)
  /\ taskId \in TaskIds(gameStateRef[p])
  /\ SendIntent(p, "UPDATE_TASK", [id |-> taskId, title |-> title])

selectTask(p, taskId) ==
  /\ RenderedHost(p)
  /\ taskId \in TaskIds(gameStateRef[p])
  /\ SendIntent(p, "SELECT_TASK", taskId)

\* the crown button is shown to the host on every user that is not host
promoteUser(p, userId) ==
  /\ RenderedHost(p)
  /\ \E i \in 1..Len(gameStateRef[p].users) :
        gameStateRef[p].users[i].id = userId /\ ~gameStateRef[p].users[i].isHost
  /\ SendIntent(p, "PROMOTE_USER", [targetUserId |-> userId])

\* ---- specification ----

\* every browser on the login screen, no room at the relay
LoginScreens ==
  /\ gameState = [p \in Users |-> EmptyState]
  /\ gameStateRef = [p \in Users |-> EmptyState]
  /\ currentUser = [p \in Users |-> NoUser]
  /\ currentUserRef = [p \in Users |-> NoUser]
  /\ phase = [p \in Users |-> "out"]
  /\ timer = [p \in Users |-> NullRoom]
  /\ down = [p \in Users |-> <<>>]
  /\ rooms = <<>>
  /\ currentRoom = [p \in Users |-> NullRoom]
  /\ currentUserId = [p \in Users |-> NullUserId]
  /\ readyState = [p \in Users |-> FALSE]
  /\ usedRooms = {}
  /\ synced = {}
  /\ intents = 0
  /\ posting = [p \in Users |-> NoMsg]
  /\ peer = [p \in Users |-> NullRoom]
  /\ isHostUser = [p \in Users |-> FALSE]
  /\ hostConn = [p \in Users |-> NullUserId]
  /\ clientConns = [p \in Users |-> {}]

Init == LoginScreens /\ budget = MaxIntents

\* every operation of the client, the participants taken from the set U
Sessions(U) ==
  \/ \E p \in U, r \in RoomCodes : createRoom(p, r)
  \/ \E p \in U, r \in RoomCodes : joinRoom(p, r)
  \/ \E p \in U : exitRoom(p)

Commands(U) ==
  \/ \E p \in U, v \in VoteChoices : submitVote(p, v)
  \/ \E p \in U : revealVotes(p)
  \/ \E p \in U : resetRound(p)
  \/ \E p \in U, t \in NewTitles : addTask(p, t)
  \/ \E p \in U, id \in 1..MaxIntents : deleteTask(p, id)
  \/ \E p \in U, id \in 1..MaxIntents, t \in EditTitles : updateTask(p, id, t)
  \/ \E p \in U, id \in 1..MaxIntents : selectTask(p, id)
  \/ \E p \in U, u \in U : promoteUser(p, u)

Events(U) ==
  \/ \E p \in U : JoinFallback(p)
  \/ \E p \in U : Deliver(p)
  \/ \E p \in U : Render(p)

\* all operations, in a session of up to NumUsers - 1 browsers
Pair == 1..(NumUsers - 1)
Next == Sessions(Pair) \/ Commands(Pair) \/ Events(Pair)
Spec == Init /\ [][Next]_vars

\* joins, exits and the join-fallback timer among NumUsers browsers
NextSessions == Sessions(Users) \/ Events(Users)
SpecSessions == Init /\ [][NextSessions]_vars

\* joins, exits and the timer among NumUsers - 1 browsers; every frame the
\* relay has sent is delivered, every pending render commits and every
\* pending timeout fires, while a user may stop acting at any time
NextLive == Sessions(Pair) \/ Events(Pair)
SpecLive ==
  /\ Init
  /\ [][NextLive]_vars
  /\ \A p \in Pair : /\ WF_vars(Deliver(p))
                     /\ WF_vars(Render(p))
                     /\ WF_vars(JoinFallback(p))

\* joins, host promotions and the join-fallback timer among NumUsers
\* browsers, one user interface action fewer than in the other sessions
NextPromote ==
  \/ \E p \in Users, r \in RoomCodes : createRoom(p, r)
  \/ \E p \in Users, r \in RoomCodes : joinRoom(p, r)
  \/ \E p \in Users, u \in Users : promoteUser(p, u)
  \/ Events(Users)
InitPromote == LoginScreens /\ budget = MaxIntents - 1
SpecPromote == InitPromote /\ [][NextPromote]_vars

\* NumUsers browsers on one relay, each creating or joining one of two
\* rooms, voting or leaving: as many user interface actions as browsers
NextRelay ==
  \/ \E p \in Users, r \in ChannelRooms : createRoom(p, r)
  \/ \E p \in Users, r \in ChannelRooms : joinRoom(p, r)
  \/ \E p \in Users : exitRoom(p)
  \/ \E p \in Users, v \in VoteChoices : submitVote(p, v)
  \/ Events(Users)
InitRelay == LoginScreens /\ budget = NumUsers
SpecRelay == InitRelay /\ [][NextRelay]_vars

\* ---- a second session in the same page ----
\* After exitRoom the page shows the login screen again.  A room created
\* from it is a new session: a new uuid for the user, a new socket.  The
\* timeout armed by the joinRoom of the first session is not cleared by
\* exitRoom; JoinFallback(p) is its callback, with the roomIdToJoin and the
\* newUser.id (p) of the first session in its closure.

\* the user id of the second session of the page of p
SecondId(p) == p + NumUsers

createRoomAgain(p, newRoomId) ==
  /\ Intent
  /\ phase[p] = "gone"
  /\ newRoomId \notin usedRooms
  /\ LET newUser == [id |-> SecondId(p), isHost |-> TRUE]
         initialTasks == <<[id |-> uuid, title |-> "First User Story",
                            status |-> "active", finalScore |-> Undefined]>>
         initialState == [roomId |-> newRoomId, users |-> <<newUser>>, votes |-> <<>>,
                          tasks |-> initialTasks, currentTaskId |-> initialTasks[1].id,
                          isRevealed |-> FALSE]
     IN  Send(p, initialState, newUser, Msg("JOIN", newRoomId, newUser.id, newUser),
              [Server EXCEPT !.readyState[p] = TRUE, !.currentRoom[p] = NullRoom,
                             !.currentUserId[p] = NullUserId],
              [phase EXCEPT ![p] = "in"])
  /\ phase' = [phase EXCEPT ![p] = "in"]
  /\ usedRooms' = usedRooms \cup {newRoomId}
  /\ UNCHANGED <<gameStateRef, currentUserRef, timer, synced>>

\* NumUsers pages and two room codes: the first room is created under the
\* first code, and a page that has left its room may create the other one
NextRejoin ==
  \/ \E p \in Users, r \in RoomCodes : createRoom(p, r)
  \/ \E p \in Users, r \in ChannelRooms : joinRoom(p, r)
  \/ \E p \in Users : exitRoom(p)
  \/ \E p \in Users, r \in ChannelRooms : createRoomAgain(p, r)
  \/ Events(Users)
SpecRejoin == Init /\ [][NextRejoin]_vars

\* ---- the relay on its own ----
\* The relay under any client: sockets connect, send JOIN frames for any
\* room code, any number of times, and close.  phase[c] is the life of
\* socket c: "out" before the connection, "in" while open, "gone" once
\* closed.  The frames in down are never read.

ClientSide == <<gameState, gameStateRef, currentUser, currentUserRef, timer,
                usedRooms, synced, posting>>

\* wss.on("connection"): the closure variables of the new socket are null
OnConnection(c) ==
  /\ phase[c] = "out"
  /\ phase' = [phase EXCEPT ![c] = "in"]
  /\ SetServer([Server EXCEPT !.readyState[c] = TRUE, !.currentRoom[c] = NullRoom,
                              !.currentUserId[c] = NullUserId])
  /\ UNCHANGED <<ClientSide, intents, budget>>

\* a JOIN frame for room r arrives on socket c
JoinFrame(c, r) ==
  /\ Intent
  /\ phase[c] = "in"
  /\ SetServer(OnMessage(Server, c, Msg("JOIN", r, c, [id |-> c, isHost |-> FALSE]), phase))
  /\ UNCHANGED <<ClientSide, phase>>

\* socket c closes
CloseSocket(c) ==
  /\ phase[c] = "in"
  /\ phase' = [phase EXCEPT ![c] = "gone"]
  /\ SetServer(OnClose(Server, c, [phase EXCEPT ![c] = "gone"]))
  /\ UNCHANGED <<ClientSide, intents, budget>>

NextServer ==
  \/ \E c \in Users : OnConnection(c)
  \/ \E c \in Users, r \in ChannelRooms : JoinFrame(c, r)
  \/ \E c \in Users : CloseSocket(c)
SpecServer == Init /\ [][NextServer]_vars

\* ---- in-process broadcast transport (BroadcastChannel) ----
\* Every tab that has loaded the application holds the one channel
\* 'agile-vote-network': a posted envelope reaches every other tab, whatever
\* room it shows, in posting order.  down[p] holds the envelopes posted to
\* tab p that its onmessage has not run on yet.  A tab is opened by the user
\* who then creates or joins a room in it: phase "out" is a tab not loaded.

\* channel.postMessage of each frame by tab p
ChannelPost(dn, p, frames) ==
  [c \in Users |-> IF c # p /\ phase[c] = "in" THEN dn[c] \o frames ELSE dn[c]]

\* send(m): post m, then notify the tab's own listeners
ChannelSend(p, g, c, m) ==
  LET r == handleMessage(g, c, gameStateRef[p], currentUserRef[p], m)
  IN  /\ gameState' = [gameState EXCEPT ![p] = r.gs]
      /\ currentUser' = [currentUser EXCEPT ![p] = r.cu]
      /\ down' = ChannelPost(down, p, <<m>> \o r.out)
      /\ UNCHANGED <<rooms, currentRoom, currentUserId, readyState, MeshSide>>

\* channel.onmessage of tab p
ChannelDeliver(p) ==
  /\ Quiet(p)
  /\ phase[p] = "in"
  /\ down[p] # <<>>
  /\ LET r == handleMessage(gameState[p], currentUser[p], gameStateRef[p],
                            currentUserRef[p], Head(down[p]))
     IN  /\ gameState' = [gameState EXCEPT ![p] = r.gs]
         /\ currentUser' = [currentUser EXCEPT ![p] = r.cu]
         /\ down' = ChannelPost([down EXCEPT ![p] = Tail(@)], p, r.out)
  /\ synced' = IF Head(down[p]).type = "SYNC_RESPONSE" THEN synced \cup {p} ELSE synced
  /\ UNCHANGED <<gameStateRef, currentUserRef, phase, timer, rooms, currentRoom,
                 currentUserId, readyState, usedRooms, intents, budget, posting,
                 MeshSide>>

ChannelCreateRoom(p, newRoomId) ==
  /\ Intent
  /\ phase[p] = "out"
  /\ \A q \in 1..(p - 1) : phase[q] # "out"
  /\ newRoomId \notin usedRooms
  /\ LET newUser == [id |-> p, isHost |-> TRUE]
         initialTasks == <<[id |-> uuid, title |-> "First User Story",
                            status |-> "active", finalScore |-> Undefined]>>
         initialState == [roomId |-> newRoomId, users |-> <<newUser>>, votes |-> <<>>,
                          tasks |-> initialTasks, currentTaskId |-> initialTasks[1].id,
                          isRevealed |-> FALSE]
     IN  ChannelSend(p, initialState, newUser,
                     Msg("JOIN", newRoomId, newUser.id, newUser))
  /\ phase' = [phase EXCEPT ![p] = "in"]
  /\ usedRooms' = usedRooms \cup {newRoomId}
  /\ UNCHANGED <<gameStateRef, currentUserRef, timer, synced>>

ChannelJoinRoom(p, roomIdToJoin) ==
  /\ Intent
  /\ phase[p] = "out"
  /\ \A q \in 1..(p - 1) : phase[q] # "out"
  /\ LET newUser == [id |-> p, isHost |-> FALSE]
         g == [gameState[p] EXCEPT !.roomId = roomIdToJoin, !.users = <<newUser>>]
     IN  ChannelSend(p, g, newUser, Msg("JOIN", roomIdToJoin, newUser.id, newUser))
  /\ phase' = [phase EXCEPT ![p] = "in"]
  /\ timer' = [timer EXCEPT ![p] = roomIdToJoin]
  /\ usedRooms' = usedRooms \cup {roomIdToJoin}
  /\ UNCHANGED <<gameStateRef, currentUserRef, synced>>

ChannelJoinFallback(p) ==
  /\ Quiet(p)
  /\ timer[p] # NullRoom
  /\ timer' = [timer EXCEPT ![p] = NullRoom]
  /\ IF Len(gameStateRef[p].users) <= 1
     THEN /\ currentUser' = [currentUser EXCEPT ![p] =
                               IF @ = NoUser THEN NoUser ELSE [@ EXCEPT !.isHost = TRUE]]
          /\ gameState' = [gameState EXCEPT ![p].users =
                             [i \in 1..Len(gameState[p].users) |->
                                IF gameState[p].users[i].id = p
                                THEN [gameState[p].users[i] EXCEPT !.isHost = TRUE]
                                ELSE gameState[p].users[i]]]
          /\ UNCHANGED <<ServerSide, MeshSide>>
     ELSE ChannelSend(p, gameState[p], currentUser[p],
                      Msg("SYNC_REQUEST", timer[p], p, <<>>))
  /\ UNCHANGED <<gameStateRef, currentUserRef, phase, usedRooms, synced, intents, budget, posting>>

\* NumUsers tabs of one browser, each creating or joining one of two rooms
NextChannel ==
  \/ \E p \in Users, r \in ChannelRooms : ChannelCreateRoom(p, r)
  \/ \E p \in Users, r \in ChannelRooms : ChannelJoinRoom(p, r)
  \/ \E p \in Users : ChannelJoinFallback(p)
  \/ \E p \in Users : ChannelDeliver(p)
  \/ \E p \in Users : Render(p)
SpecChannel == Init /\ [][NextChannel]_vars

\* ---- the two statements of the broadcast send ----
\* ChannelSend takes channel.postMessage(message) and notifyListeners(message)
\* in one step.  Here they are two steps of the posting tab: the other tabs
\* are other event loops, and their onmessage can run between the two.

Idle(p) == posting[p] = NoMsg

\* a user acts on a rendered interface while no tab is inside send
PostIntent ==
  /\ \A q \in Users : Fresh(q) /\ Idle(q)
  /\ intents < budget
  /\ intents' = intents + 1
  /\ budget' = budget

\* send(m), first statement: channel.postMessage(m); g and c are the state
\* updates the caller queued before the call
PostSend(p, g, c, m) ==
  /\ gameState' = [gameState EXCEPT ![p] = g]
  /\ currentUser' = [currentUser EXCEPT ![p] = c]
  /\ down' = ChannelPost(down, p, <<m>>)
  /\ posting' = [posting EXCEPT ![p] = m]
  /\ UNCHANGED <<rooms, currentRoom, currentUserId, readyState, MeshSide>>

\* send(m), second statement: notifyListeners(m) in the posting tab
PostNotify(p) ==
  /\ ~Idle(p)
  /\ LET r == handleMessage(gameState[p], currentUser[p], gameStateRef[p],
                            currentUserRef[p], posting[p])
     IN  /\ gameState' = [gameState EXCEPT ![p] = r.gs]
         /\ currentUser' = [currentUser EXCEPT ![p] = r.cu]
         /\ down' = ChannelPost(down, p, r.out)
  /\ posting' = [posting EXCEPT ![p] = NoMsg]
  /\ UNCHANGED <<gameStateRef, currentUserRef, phase, timer, rooms, currentRoom,
                 currentUserId, readyState, usedRooms, synced, intents, budget,
                 MeshSide>>

\* channel.onmessage of a tab that is not inside send
PostDeliver(p) == Idle(p) /\ ChannelDeliver(p)

PostRender(p) == Idle(p) /\ Render(p)

PostCreateRoom(p, newRoomId) ==
  /\ PostIntent
  /\ phase[p] = "out"
  /\ \A q \in 1..(p - 1) : phase[q] # "out"
  /\ newRoomId \notin usedRooms
  /\ LET newUser == [id |-> p, isHost |-> TRUE]
         initialTasks == <<[id |-> uuid, title |-> "First User Story",
                            status |-> "active", finalScore |-> Undefined]>>
         initialState == [roomId |-> newRoomId, users |-> <<newUser>>, votes |-> <<>>,
                          tasks |-> initialTasks, currentTaskId |-> initialTasks[1].id,
                          isRevealed |-> FALSE]
     IN  PostSend(p, initialState, newUser, Msg("JOIN", newRoomId, newUser.id, newUser))
  /\ phase' = [phase EXCEPT ![p] = "in"]
  /\ usedRooms' = usedRooms \cup {newRoomId}
  /\ UNCHANGED <<gameStateRef, currentUserRef, timer, synced>>

PostJoinRoom(p, roomIdToJoin) ==
  /\ PostIntent
  /\ phase[p] = "out"
  /\ \A q \in 1..(p - 1) : phase[q] # "out"
  /\ LET newUser == [id |-> p, isHost |-> FALSE]
         g == [gameState[p] EXCEPT !.roomId = roomIdToJoin, !.users = <<newUser>>]
     IN  PostSend(p, g, newUser, Msg("JOIN", roomIdToJoin, newUser.id, newUser))
  /\ phase' = [phase EXCEPT ![p] = "in"]
  /\ timer' = [timer EXCEPT ![p] = roomIdToJoin]
  /\ usedRooms' = usedRooms \cup {roomIdToJoin}
  /\ UNCHANGED <<gameStateRef, currentUserRef, synced>>

PostJoinFallback(p) ==
  /\ Quiet(p) /\ \A q \in Users : Idle(q)
  /\ timer[p] # NullRoom
  /\ timer' = [timer EXCEPT ![p] = NullRoom]
  /\ IF Len(gameStateRef[p].users) <= 1
     THEN /\ currentUser' = [currentUser EXCEPT ![p] =
                               IF @ = NoUser THEN NoUser ELSE [@ EXCEPT !.isHost = TRUE]]
          /\ gameState' = [gameState EXCEPT ![p].users =
                             [i \in 1..Len(gameState[p].users) |->
                                IF gameState[p].users[i].id = p
                                THEN [gameState[p].users[i] EXCEPT !.isHost = TRUE]
                                ELSE gameState[p].users[i]]]
          /\ UNCHANGED <<ServerSide, MeshSide, posting>>
     ELSE PostSend(p, gameState[p], currentUser[p],
                   Msg("SYNC_REQUEST", timer[p], p, <<>>))
  /\ UNCHANGED <<gameStateRef, currentUserRef, phase, usedRooms, synced, intents, budget>>

PostSubmitVote(p, value) ==
  /\ PostIntent
  /\ InGameRoom(p)
  /\ ~gameStateRef[p].isRevealed
  /\ gameStateRef[p].currentTaskId \in TaskIds(gameStateRef[p])
  /\ PostSend(p, gameState[p], currentUser[p],
              Msg("VOTE", gameStateRef[p].roomId, currentUserRef[p].id,
                  [userId |-> currentUserRef[p].id, value |-> value]))
  /\ UNCHANGED <<gameStateRef, currentUserRef, phase, timer, usedRooms, synced>>

\* NumUsers - 1 tabs of one browser in one room
NextPost ==
  \/ \E p \in Pair, r \in RoomCodes : PostCreateRoom(p, r)
  \/ \E p \in Pair, r \in RoomCodes : PostJoinRoom(p, r)
  \/ \E p \in Pair, v \in VoteChoices : PostSubmitVote(p, v)
  \/ \E p \in Pair : PostNotify(p)
  \/ \E p \in Pair : PostJoinFallback(p)
  \/ \E p \in Pair : PostDeliver(p)
  \/ \E p \in Pair : PostRender(p)
SpecPost == Init /\ [][NextPost]_vars

\* ---- peer-to-peer mesh transport (PeerJS) ----
\* The service of the host opens a Peer whose id is the room code; the
\* service of every other participant opens a Peer of its own and connects
\* to the host's.  down[p] holds the data events of the connections of p
\* that have not run yet.  Every envelope a client sends carries the
\* client's own user id as senderId, which stands for conn.peer at the host.

\* conn.open of the connection that hostConn of p holds
HostConnOpen(p, hconn) == hconn # NullUserId /\ peer[hconn] # NullRoom

\* broadcastToClients(message, excludePeerId), frame after frame
broadcastToClients(dn, conns, frames, excludePeerId) ==
  [q \in Users |-> IF q \in conns \ excludePeerId /\ peer[q] # NullRoom
                   THEN dn[q] \o frames ELSE dn[q]]

\* the routing of send() in a service whose fields are host, conns, hconn
MeshRoute(dn, p, frames, host, conns, hconn) ==
  IF host THEN broadcastToClients(dn, conns, frames, {})
  ELSE IF HostConnOpen(p, hconn) THEN [dn EXCEPT ![hconn] = @ \o frames]
  ELSE dn

\* send(m): notify the local listeners, then route the envelope
MeshSend(p, g, c, m, host, conns, hconn) ==
  LET r == handleMessage(g, c, gameStateRef[p], currentUserRef[p], m)
  IN  /\ gameState' = [gameState EXCEPT ![p] = r.gs]
      /\ currentUser' = [currentUser EXCEPT ![p] = r.cu]
      /\ down' = MeshRoute(down, p, r.out \o <<m>>, host, conns, hconn)
      /\ UNCHANGED <<rooms, currentRoom, currentUserId, readyState>>

\* conn.on('data'): notify the listeners, then the host relays the envelope
\* to every client but the one it came from
MeshDeliver(p) ==
  /\ Quiet(p)
  /\ phase[p] = "in"
  /\ down[p] # <<>>
  /\ LET message == Head(down[p])
         r == handleMessage(gameState[p], currentUser[p], gameStateRef[p],
                            currentUserRef[p], message)
         sent == MeshRoute([down EXCEPT ![p] = Tail(@)], p, r.out,
                           isHostUser[p], clientConns[p], hostConn[p])
     IN  /\ gameState' = [gameState EXCEPT ![p] = r.gs]
         /\ currentUser' = [currentUser EXCEPT ![p] = r.cu]
         /\ down' = IF isHostUser[p]
                    THEN broadcastToClients(sent, clientConns[p], <<message>>,
                                            {message.senderId})
                    ELSE sent
  /\ synced' = IF Head(down[p]).type = "SYNC_RESPONSE" THEN synced \cup {p} ELSE synced
  /\ UNCHANGED <<gameStateRef, currentUserRef, phase, timer, rooms, currentRoom,
                 currentUserId, readyState, usedRooms, intents, budget, posting,
                 MeshSide>>

\* createRoom of the service (the Peer opens under the room code, which no
\* open Peer holds), then the application's createRoom
MeshCreateRoom(p, newRoomId) ==
  /\ Intent
  /\ phase[p] = "out"
  /\ \A q \in 1..(p - 1) : phase[q] # "out"
  /\ newRoomId \notin usedRooms
  /\ LET newUser == [id |-> p, isHost |-> TRUE]
         initialTasks == <<[id |-> uuid, title |-> "First User Story",
                            status |-> "active", finalScore |-> Undefined]>>
         initialState == [roomId |-> newRoomId, users |-> <<newUser>>, votes |-> <<>>,
                          tasks |-> initialTasks, currentTaskId |-> initialTasks[1].id,
                          isRevealed |-> FALSE]
     IN  MeshSend(p, initialState, newUser, Msg("JOIN", newRoomId, newUser.id, newUser),
                  TRUE, clientConns[p], hostConn[p])
  /\ peer' = [peer EXCEPT ![p] = newRoomId]
  /\ isHostUser' = [isHostUser EXCEPT ![p] = TRUE]
  /\ phase' = [phase EXCEPT ![p] = "in"]
  /\ usedRooms' = usedRooms \cup {newRoomId}
  /\ UNCHANGED <<gameStateRef, currentUserRef, timer, synced, hostConn, clientConns>>

\* joinRoom of the service (the connection to the host's Peer opens at both
\* ends), then the application's joinRoom
MeshJoinRoom(p, roomIdToJoin) ==
  /\ Intent
  /\ phase[p] = "out"
  /\ \A q \in 1..(p - 1) : phase[q] # "out"
  /\ \E h \in Users :
        /\ peer[h] = roomIdToJoin
        /\ hostConn' = [hostConn EXCEPT ![p] = h]
        /\ clientConns' = [clientConns EXCEPT ![h] = @ \cup {p}]
        /\ LET newUser == [id |-> p, isHost |-> FALSE]
               g == [gameState[p] EXCEPT !.roomId = roomIdToJoin, !.users = <<newUser>>]
           IN  MeshSend(p, g, newUser, Msg("JOIN", roomIdToJoin, newUser.id, newUser),
                        FALSE, clientConns[p], h)
  /\ peer' = [peer EXCEPT ![p] = "random"]
  /\ isHostUser' = [isHostUser EXCEPT ![p] = FALSE]
  /\ phase' = [phase EXCEPT ![p] = "in"]
  /\ timer' = [timer EXCEPT ![p] = roomIdToJoin]
  /\ usedRooms' = usedRooms \cup {roomIdToJoin}
  /\ UNCHANGED <<gameStateRef, currentUserRef, synced>>

MeshJoinFallback(p) ==
  /\ Quiet(p)
  /\ timer[p] # NullRoom
  /\ timer' = [timer EXCEPT ![p] = NullRoom]
  /\ IF Len(gameStateRef[p].users) <= 1
     THEN /\ currentUser' = [currentUser EXCEPT ![p] =
                               IF @ = NoUser THEN NoUser ELSE [@ EXCEPT !.isHost = TRUE]]
          /\ gameState' = [gameState EXCEPT ![p].users =
                             [i \in 1..Len(gameState[p].users) |->
                                IF gameState[p].users[i].id = p
                                THEN [gameState[p].users[i] EXCEPT !.isHost = TRUE]
                                ELSE gameState[p].users[i]]]
          /\ UNCHANGED ServerSide
     ELSE MeshSend(p, gameState[p], currentUser[p],
                   Msg("SYNC_REQUEST", timer[p], p, <<>>),
                   isHostUser[p], clientConns[p], hostConn[p])
  /\ UNCHANGED <<gameStateRef, currentUserRef, phase, usedRooms, synced, intents, budget,
                 posting, MeshSide>>

\* exitRoom: disconnect() destroys the Peer and clears the service; at the
\* host the 'close' event of the connection deletes its clientConns entry
MeshExitRoom(p) ==
  /\ Intent
  /\ InGameRoom(p)
  /\ phase' = [phase EXCEPT ![p] = "gone"]
  /\ peer' = [peer EXCEPT ![p] = NullRoom]
  /\ isHostUser' = [isHostUser EXCEPT ![p] = FALSE]
  /\ hostConn' = [hostConn EXCEPT ![p] = NullUserId]
  /\ clientConns' = [q \in Users |-> IF q = p THEN {} ELSE clientConns[q] \ {p}]
  /\ down' = [down EXCEPT ![p] = <<>>]
  /\ gameState' = [gameState EXCEPT ![p] = EmptyState]
  /\ currentUser' = [currentUser EXCEPT ![p] = NoUser]
  /\ UNCHANGED <<gameStateRef, currentUserRef, timer, usedRooms, synced, rooms,
                 currentRoom, currentUserId, readyState>>

NextMesh ==
  \/ \E p \in Users, r \in RoomCodes : MeshCreateRoom(p, r)
  \/ \E p \in Users, r \in RoomCodes : MeshJoinRoom(p, r)
  \/ \E p \in Users : MeshExitRoom(p)
  \/ \E p \in Users : MeshJoinFallback(p)
  \/ \E p \in Users : MeshDeliver(p)
  \/ \E p \in Users : Render(p)
SpecMesh == Init /\ [][NextMesh]_vars

\* ---- the calculator on every vote set ----

\* the orders in which distinct users of U can have cast a first vote
RECURSIVE VoteOrders(_)
VoteOrders(U) ==
  {<<>>} \cup UNION {{<<[userId |-> u, value |-> v]>> \o rest :
                        v \in TokenDomain, rest \in VoteOrders(U \ {u})} : u \in U}

\* a room after createRoom by user 1, a join and a sync of every other user,
\* the votes cast and REVEAL: "Next Round" is on the host's screen
CalcRoom == CHOOSE r \in RoomCodes : TRUE
CalcState(votes) ==
  [roomId |-> CalcRoom,
   users |-> [i \in Users |-> [id |-> i, isHost |-> (i = 1)]],
   votes |-> votes,
   tasks |-> <<[id |-> 1, title |-> "First User Story", status |-> "active",
                finalScore |-> Undefined]>>,
   currentTaskId |-> 1,
   isRevealed |-> TRUE]

InitCalc ==
  /\ \E votes \in VoteOrders(Users) :
        /\ gameState = [p \in Users |-> CalcState(votes)]
        /\ gameStateRef = [p \in Users |-> CalcState(votes)]
  /\ currentUser = [p \in Users |-> [id |-> p, isHost |-> (p = 1)]]
  /\ currentUserRef = currentUser
  /\ phase = [p \in Users |-> "in"]
  /\ timer = [p \in Users |-> NullRoom]
  /\ down = [p \in Users |-> <<>>]
  /\ rooms = [r \in {CalcRoom} |-> Users]
  /\ currentRoom = [p \in Users |-> CalcRoom]
  /\ currentUserId = [p \in Users |-> p]
  /\ readyState = [p \in Users |-> TRUE]
  /\ usedRooms = {CalcRoom}
  /\ synced = Users \ {1}
  /\ intents = 0
  /\ budget = MaxIntents
  /\ posting = [p \in Users |-> NoMsg]
  /\ peer = [p \in Users |-> NullRoom]
  /\ isHostUser = [p \in Users |-> FALSE]
  /\ hostConn = [p \in Users |-> NullUserId]
  /\ clientConns = [p \in Users |-> {}]

NextCalc ==
  \/ \E p \in Users : resetRound(p)
  \/ \E p \in Users : Deliver(p)
  \/ \E p \in Users : Render(p)
SpecCalc == InitCalc /\ [][NextCalc]_vars

\* ---- a second round on the same task ----
\* The room of the calculator with one vote of the two cards on the table
\* and the votes revealed; the host (user 1) closes the round, may select
\* the task again and vote in the round that follows; the members receive.

InitRescore ==
  /\ InitCalc
  /\ Len(gameState[1].votes) = 1
  /\ \A i \in 1..Len(gameState[1].votes) : gameState[1].votes[i].value \in VoteChoices

NextRescore ==
  \/ \E p \in Users : resetRound(p)
  \/ \E p \in Users, id \in 1..MaxIntents : selectTask(p, id)
  \/ \E p \in Users : revealVotes(p)
  \/ \E v \in VoteChoices : submitVote(1, v)
  \/ \E p \in Users : Deliver(p)
  \/ \E p \in Users : Render(p)
SpecRescore == InitRescore /\ [][NextRescore]_vars

\* ---- the end-to-end run ----
\* Host (user 1) creates the room, Member (user 2) joins; once both hold
\* users [Host, Member] Host votes 5 and Member 8, in either order; Host reveals and
\* resets.  Each command is given when the envelopes of the earlier ones are
\* delivered and rendered; the join-fallback timer of Member fires when it
\* is due, at any point of the run.

Scenario == <<"create", "join", "first vote", "second vote", "reveal", "reset">>
ScenarioSteps == Len(Scenario)

Settled == \A p \in Users : down[p] = <<>>

\* the next command of the run is c, and the earlier ones are delivered
Step(c) == intents < ScenarioSteps /\ Scenario[intents + 1] = c /\ Settled

HostAndMember == <<[id |-> 1, isHost |-> TRUE], [id |-> 2, isHost |-> FALSE]>>

ScenarioVote(p) == IF p = 1 THEN "5" ELSE "8"

\* the participant whose vote is still to come: Host's page shows Host's own
\* card once Host has voted
SecondVoter == IF 1 \in VoteKeys(gameState[1]) THEN 2 ELSE 1

InitScenario == LoginScreens /\ budget = ScenarioSteps

NextScenario ==
  \/ Step("create") /\ createRoom(1, CalcRoom)
  \/ Step("join") /\ joinRoom(2, CalcRoom)
  \/ \E p \in {1, 2} :
        /\ Step("first vote")
        /\ gameState[1].users = HostAndMember /\ gameState[2].users = HostAndMember
        /\ submitVote(p, ScenarioVote(p))
  \/ /\ Step("second vote")
     /\ submitVote(SecondVoter, ScenarioVote(SecondVoter))
  \/ Step("reveal") /\ revealVotes(1)
  \/ Step("reset") /\ resetRound(1)
  \/ Events({1, 2})
SpecScenario == InitScenario /\ [][NextScenario]_vars

\* ---- claims ----

InRoom(p) == phase[p] = "in"
IsHost(p) == InRoom(p) /\ currentUser[p].isHost

\* votes as a mapping: the set of its (userId, value) entries
VotesMap(g) == {<<g.votes[i].userId, g.votes[i].value>> : i \in 1..Len(g.votes)}

SameSession(g, h) ==
  /\ g.roomId = h.roomId
  /\ g.users = h.users
  /\ VotesMap(g) = VotesMap(h)
  /\ g.tasks = h.tasks
  /\ g.currentTaskId = h.currentTaskId
  /\ g.isRevealed = h.isRevealed

\* nothing is in flight, no timeout is pending and every browser has rendered
Quiescent ==
  \A p \in Users : /\ InRoom(p) => down[p] = <<>>
                   /\ timer[p] = NullRoom
                   /\ Fresh(p)

\* C1: once every envelope is delivered and nothing is pending, the
\* SessionState of every member equals the SessionState of the host.
C1_Convergence ==
  Quiescent =>
    \A h \in Users, m \in Users :
       (IsHost(h) /\ InRoom(m) /\ gameState[m].roomId = gameState[h].roomId)
          => SameSession(gameState[m], gameState[h])

\* C2: every key of votes is the id of a user in the users list of the
\* same replica.
C2_VotesOfUsers ==
  \A p \in Users : VoteKeys(gameState[p]) \subseteq UserIds(gameState[p])

\* C3: currentTaskId is null or the id of a task in the tasks list of the
\* same replica.
C3_CurrentTaskExists ==
  \A p \in Users :
     \/ gameState[p].currentTaskId = NullTask
     \/ gameState[p].currentTaskId \in TaskIds(gameState[p])

Receives(p, type) == Deliver(p) /\ Head(down[p]).type = type
AppliesReset(p) == resetRound(p) \/ Receives(p, "RESET")

\* the tasks of g that currentTaskId names
CurrentTasks(g) == {i \in 1..Len(g.tasks) : g.tasks[i].id = g.currentTaskId}

ResetClears(p) ==
  /\ gameState'[p].votes = <<>>
  /\ ~gameState'[p].isRevealed
  /\ gameState'[p].currentTaskId = NullTask

\* C5 as stated: after RESET votes is empty, isRevealed false, currentTaskId
\* null, and the task that was current is completed with a finalScore.
C5_AfterResetOriginal ==
  [][\A p \in Users : AppliesReset(p) =>
        /\ ResetClears(p)
        /\ \A i \in CurrentTasks(gameState[p]) :
              /\ gameState'[p].tasks[i].status = "completed"
              /\ gameState'[p].tasks[i].finalScore # Undefined]_vars

\* C5 amended: the task that was current is completed, and it has a
\* finalScore exactly when votes was not empty before the RESET.
C5_AfterReset ==
  [][\A p \in Users : AppliesReset(p) =>
        /\ ResetClears(p)
        /\ \A i \in CurrentTasks(gameState[p]) :
              /\ gameState'[p].tasks[i].status = "completed"
              /\ (gameState'[p].tasks[i].finalScore # Undefined)
                    <=> (gameState[p].votes # <<>>)]_vars

\* a replica has closed a round that had votes
C5_Witness ==
  \E p \in Users : \E i \in 1..Len(gameState[p].tasks) :
     /\ gameState[p].tasks[i].status = "completed"
     /\ gameState[p].tasks[i].finalScore \in TokenDomain
     /\ gameState[p].currentTaskId = NullTask
     /\ gameState[p].votes = <<>>

OneHostAgreed ==
  LET connected == {p \in Users : InRoom(p)}
  IN  \/ connected = {}
      \/ \E h \in connected :
            /\ {p \in connected : currentUser[p].isHost} = {h}
            /\ \A q \in connected : Hosts(gameState[q]) = {h}

\* C6: every fair run reaches and stays in a state where exactly one
\* connected participant has isHost = true and the users list of every
\* connected replica names that participant, and nobody else, as host.
C6_EventuallyOneHost == <>[]OneHostAgreed

HostEntries(g) == {i \in 1..Len(g.users) : g.users[i].isHost}

LeavingHost(g, id) ==
  /\ \E i \in HostEntries(g) : g.users[i].id = id
  /\ \E i \in 1..Len(g.users) : g.users[i].id # id

\* C7: when USER_LEFT removes a user that is host in the users list and a
\* user remains, exactly one remaining user is host afterwards, and if the
\* first remaining user is the local participant, currentUser.isHost is true.
C7_Succession ==
  [][\A p \in Users :
        (Receives(p, "USER_LEFT") /\ LeavingHost(gameState[p], Head(down[p]).payload.id))
           => /\ Cardinality(HostEntries(gameState'[p])) = 1
              /\ gameState'[p].users[1].id = p => currentUser'[p].isHost]_vars

OwnEntryIsHost(g, id) ==
  /\ id \in UserIds(g)
  /\ \A i \in 1..Len(g.users) : g.users[i].id = id => g.users[i].isHost

\* handleMessage of replica p runs on an inbound envelope of the given type,
\* on either transport
Handles(p, type) == (Deliver(p) \/ ChannelDeliver(p)) /\ Head(down[p]).type = type

C9_FallbackPromotes ==
  [][\A p \in Users :
        (JoinFallback(p) /\ InRoom(p) /\ p \notin synced)
           => /\ currentUser'[p].isHost
              /\ OwnEntryIsHost(gameState'[p], p)]_vars

\* the numeric votes of g: their positions, their number and their sum
NumericVotes(g) == {i \in 1..Len(g.votes) : g.votes[i].value \in DOMAIN NumVal}

RECURSIVE SumNumericVotes(_, _)
SumNumericVotes(g, I) ==
  IF I = {} THEN 0
  ELSE LET i == CHOOSE j \in I : TRUE
       IN  NumVal[g.votes[i].value] + SumNumericVotes(g, I \ {i})

\* token t is at least as close to sum / n as every numeric token
ClosestToMean(t, sum, n) ==
  /\ t \in DOMAIN NumVal
  /\ \A other \in DOMAIN NumVal :
        Abs(NumVal[t] * n - sum) <= Abs(NumVal[other] * n - sum)

WithoutNonNumeric(g) == [g EXCEPT !.votes = SelectSeq(@, LAMBDA v : ~IsNaN(v.value))]

\* C10: when RESET is applied to votes with at least one numeric vote, the
\* finalScore given to the current task is a numeric token at minimal
\* distance from the mean of the numeric votes, and it is the one the same
\* votes without the non-numeric ones would give.
C10_ClosestToMean ==
  [][\A p \in Users :
        (AppliesReset(p) /\ NumericVotes(gameState[p]) # {})
           => \A i \in CurrentTasks(gameState[p]) :
                 /\ ClosestToMean(gameState'[p].tasks[i].finalScore,
                                  SumNumericVotes(gameState[p], NumericVotes(gameState[p])),
                                  Cardinality(NumericVotes(gameState[p])))
                 /\ gameState'[p].tasks[i].finalScore
                       = FinalScore(WithoutNonNumeric(gameState[p]))]_vars

\* the host has closed a round whose votes, still held by a member, include
\* a non-numeric one and numeric ones whose mean is not a token
C10_Witness ==
  \E p, q \in Users :
     /\ gameState[p].currentTaskId = NullTask
     /\ Len(gameState[p].tasks) = 1
     /\ gameState[p].tasks[1].finalScore \in DOMAIN NumVal
     /\ \E i \in 1..Len(gameState[q].votes) : IsNaN(gameState[q].votes[i].value)
     /\ NumericVotes(gameState[q]) # {}
     /\ NumVal[gameState[p].tasks[1].finalScore] * Cardinality(NumericVotes(gameState[q]))
           # SumNumericVotes(gameState[q], NumericVotes(gameState[q]))

\* the numeric tokens at minimal distance from sum / n
Closest(sum, n) == {t \in DOMAIN NumVal : ClosestToMean(t, sum, n)}

\* the votes of g have a mean that lies halfway between two tokens
TiedMean(g) ==
  /\ NumericVotes(g) # {}
  /\ Cardinality(Closest(SumNumericVotes(g, NumericVotes(g)),
                         Cardinality(NumericVotes(g)))) = 2

\* C11: when RESET is applied to votes whose numeric mean is equidistant
\* from two tokens, the finalScore given to the current task is the smaller
\* of the two.
C11_TieToSmaller ==
  [][\A p \in Users :
        (AppliesReset(p) /\ TiedMean(gameState[p]))
           => \A i \in CurrentTasks(gameState[p]) :
                 /\ gameState'[p].tasks[i].finalScore \in DOMAIN NumVal
                 /\ \A t \in Closest(SumNumericVotes(gameState[p], NumericVotes(gameState[p])),
                                      Cardinality(NumericVotes(gameState[p]))) :
                       NumVal[gameState'[p].tasks[i].finalScore] <= NumVal[t]]_vars

\* the host has closed with 5 a round whose votes, still held by a member,
\* have the mean 6.5
C11_Witness ==
  \E p, q \in Users :
     /\ gameState[p].currentTaskId = NullTask
     /\ Len(gameState[p].tasks) = 1
     /\ gameState[p].tasks[1].finalScore = "5"
     /\ TiedMean(gameState[q])
     /\ 2 * SumNumericVotes(gameState[q], NumericVotes(gameState[q]))
           = 13 * Cardinality(NumericVotes(gameState[q]))

\* the number of votes of g with the value v
Occurrences(g, v) == Cardinality({i \in 1..Len(g.votes) : g.votes[i].value = v})

NoNumericVote(g) == g.votes # <<>> /\ NumericVotes(g) = {}

\* C12: when RESET is applied to a non-empty vote set without a numeric
\* vote, the finalScore given to the current task is the value of a vote,
\* and no value has more votes than it.
C12_Plurality ==
  [][\A p \in Users :
        (AppliesReset(p) /\ NoNumericVote(gameState[p]))
           => \A i \in CurrentTasks(gameState[p]) :
                 /\ Occurrences(gameState[p], gameState'[p].tasks[i].finalScore) > 0
                 /\ \A v \in TokenDomain :
                       Occurrences(gameState[p], v)
                         <= Occurrences(gameState[p], gameState'[p].tasks[i].finalScore)]_vars

\* the host has closed a round with the value that two of the three
\* non-numeric votes, still held by a member, have, the last vote being
\* the other value
C12_Witness ==
  \E p, q \in Users :
     /\ gameState[p].currentTaskId = NullTask
     /\ Len(gameState[p].tasks) = 1
     /\ IsNaN(gameState[p].tasks[1].finalScore)
     /\ gameState[p].tasks[1].finalScore # Undefined
     /\ NoNumericVote(gameState[q])
     /\ Occurrences(gameState[q], gameState[p].tasks[1].finalScore) = 2
     /\ gameState[q].votes[Len(gameState[q].votes)].value
           # gameState[p].tasks[1].finalScore

\* C13: when RESET is applied while votes is empty and a current task
\* exists, the finalScore of that task is unset afterwards.
C13_EmptyVotesUnset ==
  [][\A p \in Users :
        (AppliesReset(p) /\ gameState[p].votes = <<>>)
           => \A i \in CurrentTasks(gameState[p]) :
                 gameState'[p].tasks[i].finalScore = Undefined]_vars

\* a replica has closed a round without votes: its task is completed and
\* has no finalScore
C13_Witness ==
  \E p \in Users : \E i \in 1..Len(gameState[p].tasks) :
     /\ gameState[p].tasks[i].status = "completed"
     /\ gameState[p].tasks[i].finalScore = Undefined
     /\ gameState[p].currentTaskId = NullTask

\* the order pending < active < completed
StatusRank(status) ==
  CASE status = "pending" -> 0 [] status = "active" -> 1 [] status = "completed" -> 2

\* C14: in every replica, on every step, a task that the replica holds
\* before and after the step does not move to an earlier status.
C14_StatusMonotonic ==
  [][\A p \in Users :
        \A i \in 1..Len(gameState[p].tasks), j \in 1..Len(gameState'[p].tasks) :
           gameState[p].tasks[i].id = gameState'[p].tasks[j].id
              => StatusRank(gameState[p].tasks[i].status)
                   <= StatusRank(gameState'[p].tasks[j].status)]_vars

\* the number of entries of users with the given id
EntriesOf(g, id) == Cardinality({i \in 1..Len(g.users) : g.users[i].id = id})

\* handleMessage applied once more to the envelope that replica p has just
\* handled, before the next render and after it
AgainBeforeRender(p) ==
  handleMessage(gameState'[p], currentUser'[p], gameStateRef[p], currentUserRef[p],
                Head(down[p])).gs
AgainAfterRender(p) ==
  handleMessage(gameState'[p], currentUser'[p], gameState'[p], currentUser'[p],
                Head(down[p])).gs

\* C15: the JOIN that createRoom and joinRoom echo locally, for the id they
\* have just put in users, leaves users with that one entry; and once a
\* replica has applied an inbound JOIN, users has one entry for its id and
\* applying the same JOIN again leaves the state unchanged.
C15_JoinIdempotent ==
  [][\A p \in Users :
        /\ (\E r \in RoomCodes : createRoom(p, r) \/ joinRoom(p, r))
              => Len(gameState'[p].users) = 1 /\ gameState'[p].users[1].id = p
        /\ Receives(p, "JOIN")
              => /\ EntriesOf(gameState'[p], Head(down[p]).payload.id) = 1
                 /\ AgainBeforeRender(p) = gameState'[p]
                 /\ AgainAfterRender(p) = gameState'[p]]_vars

\* a joiner that is neither synced nor host has applied the JOIN of a
\* second joiner, which still holds the users list of its own joinRoom
C15_Witness ==
  \E p, q \in Users :
     /\ p # q /\ InRoom(p) /\ InRoom(q)
     /\ p \notin synced /\ ~currentUser[p].isHost
     /\ EntriesOf(gameState[p], q) = 1
     /\ gameState[q].users = <<[id |-> q, isHost |-> FALSE]>>

\* replica p applies DELETE_TASK of task id: its own, through the local
\* echo, or an inbound one
AppliesDelete(p, id) ==
  \/ deleteTask(p, id)
  \/ Receives(p, "DELETE_TASK") /\ Head(down[p]).payload = id

\* C16: DELETE_TASK of the id that is currentTaskId sets currentTaskId to
\* null and removes the task; DELETE_TASK of another id leaves currentTaskId
\* as it was (and removes that task).
C16_DeleteTask ==
  [][\A p \in Users : \A id \in 1..MaxIntents :
        AppliesDelete(p, id)
           => /\ id \notin TaskIds(gameState'[p])
              /\ gameState'[p].currentTaskId =
                    IF gameState[p].currentTaskId = id THEN NullTask
                    ELSE gameState[p].currentTaskId]_vars

\* a member is about to apply the DELETE_TASK of its current task, which
\* the host has already applied
C16_Witness ==
  \E p, q \in Users :
     /\ InRoom(q) /\ down[q] # <<>>
     /\ Head(down[q]).type = "DELETE_TASK"
     /\ Head(down[q]).payload = gameState[q].currentTaskId
     /\ gameState[q].currentTaskId \in TaskIds(gameState[q])
     /\ gameState[p].roomId = gameState[q].roomId
     /\ gameState[p].currentTaskId = NullTask
     /\ Head(down[q]).payload \notin TaskIds(gameState[p])

\* the envelopes that handleMessage of replica p transmits on this step
Emits(p) ==
  handleMessage(gameState[p], currentUser[p], gameStateRef[p], currentUserRef[p],
                Head(down[p])).out

\* C18: handling SYNC_REQUEST leaves the receiver's SessionState as it
\* was; a receiver whose currentUser.isHost is true transmits exactly one
\* SYNC_RESPONSE, any other receiver transmits nothing.
C18_SyncRequest ==
  [][\A p \in Users :
        Receives(p, "SYNC_REQUEST")
           => /\ gameState'[p] = gameState[p]
              /\ IF currentUser[p].isHost
                 THEN Len(Emits(p)) = 1 /\ Emits(p)[1].type = "SYNC_RESPONSE"
                 ELSE Emits(p) = <<>>]_vars

HostCommands == {"REVEAL", "RESET", "ADD_TASK", "DELETE_TASK", "UPDATE_TASK",
                 "SELECT_TASK", "PROMOTE_USER"}

\* the envelopes that this step adds to the inbound queue of q
Arriving(q) == {down'[q][k] : k \in (Len(down[q]) + 1)..Len(down'[q])}

\* C20: every host command that reaches another participant was sent by
\* a participant whose currentUser.isHost was true and whose roomId was not
\* null when it sent it.
C20_HostOnlyCommands ==
  [][\A q \in Users : \A m \in Arriving(q) :
        m.type \in HostCommands
           => /\ currentUser[m.senderId].isHost
              /\ gameState[m.senderId].roomId # NullRoom]_vars

\* a participant that is not host has a host command in its inbound queue
\* while another participant that is not host is in the room
C20_Witness ==
  \E q, r \in Users :
     /\ q # r /\ InRoom(q) /\ InRoom(r)
     /\ ~currentUser[q].isHost
     /\ ~currentUser[r].isHost \/ r \in synced
     /\ \E k \in 1..Len(down[q]) : down[q][k].type \in HostCommands

\* the six commands of the end-to-end run are given and nothing is pending
ScenarioDone == intents = ScenarioSteps /\ Quiescent

Drops(p) == phase[p] = "in" /\ phase'[p] = "gone" /\ currentUser[p] # NoUser

\* the participants still connected that show the room p is in
Remaining(p) ==
  {q \in Users \ {p} : phase[q] = "in" /\ gameState[q].roomId = gameState[p].roomId}

\* C19: when the connection of a joined participant drops, a USER_LEFT
\* envelope with the participant's user id is sent to every remaining
\* participant of the room.
C19_UserLeftSent ==
  [][\A p \in Users : Drops(p) =>
       \A q \in Remaining(p) :
          /\ Len(down'[q]) = Len(down[q]) + 1
          /\ down'[q][Len(down'[q])].type = "USER_LEFT"
          /\ down'[q][Len(down'[q])].payload.id = p]_vars

\* C21: no replica applies an envelope while its originator has not yet
\* handed it to its own listeners.
C21_LocalFirst ==
  [][\A q \in Users :
        PostDeliver(q) => posting[Head(down[q]).senderId] # Head(down[q])]_vars

\* C22: exitRoom leaves the local SessionState empty and the local user
\* null; on that step no other replica changes, and the only envelope that
\* reaches another participant is the relay's USER_LEFT for the one leaving.
C22_ExitRoom ==
  [][\A p \in Users :
        exitRoom(p) =>
           /\ gameState'[p] = EmptyState
           /\ currentUser'[p] = NoUser
           /\ \A q \in Users \ {p} :
                 /\ gameState'[q] = gameState[q]
                 /\ currentUser'[q] = currentUser[q]
                 /\ \A m \in Arriving(q) :
                       /\ m.type = "USER_LEFT"
                       /\ m.senderId = "SERVER"
                       /\ m.payload.id = p]_vars

\* a participant has left a room in which votes were cast and shown, and
\* the relay's USER_LEFT is on its way to the one who stays
C22_Witness ==
  \E p, q \in Users :
     /\ phase[p] = "gone" /\ gameState[p] = EmptyState /\ currentUser[p] = NoUser
     /\ InRoom(q) /\ down[q] # <<>>
     /\ Head(down[q]).type = "USER_LEFT" /\ Head(down[q]).payload.id = p
     /\ p \in VoteKeys(gameState[q]) /\ gameState[q].isRevealed

\* the SessionState of replica p once the envelope at the head of its queue,
\* a JOIN or a SYNC_REQUEST, is taken into account
StateAtRequest(p) ==
  LET m == Head(down[p])
  IN  IF m.type = "JOIN" /\ ~HasUser(gameState[p].users, m.payload.id)
      THEN [gameState[p] EXCEPT !.users = Append(@, m.payload)]
      ELSE gameState[p]

\* C23: the SYNC_RESPONSE a host emits on a JOIN or a SYNC_REQUEST carries
\* its SessionState as it stands when the request is handled, whatever it
\* handled since its last render.
C23_FreshSnapshot ==
  [][\A p \in Users :
        (Receives(p, "SYNC_REQUEST") \/ Receives(p, "JOIN")) =>
           \A k \in 1..Len(Emits(p)) :
              Emits(p)[k].type = "SYNC_RESPONSE"
                 => Emits(p)[k].payload = StateAtRequest(p)]_vars

\* the users of g without the entries of id
UsersWithout(g, id) == SelectSeq(g.users, LAMBDA u : u.id # id)

\* C24: when USER_LEFT removes the host and users remain, the first of the
\* remaining users is host afterwards and every other remaining entry keeps
\* its isHost flag; when the one who left was not host, or is not in users,
\* every remaining entry keeps its flag.
C24_PromotesFirst ==
  [][\A p \in Users :
        Receives(p, "USER_LEFT") =>
           LET id == Head(down[p]).payload.id
               remaining == UsersWithout(gameState[p], id)
               after == gameState'[p].users
           IN  /\ Len(after) = Len(remaining)
               /\ \A i \in 1..Len(remaining) :
                     /\ after[i].id = remaining[i].id
                     /\ after[i].isHost =
                           IF i = 1 /\ LeavingHost(gameState[p], id)
                           THEN TRUE ELSE remaining[i].isHost]_vars

\* the host has left a room of three and a replica has promoted the first
\* of the two that remain, and only that one
C24_Witness ==
  \E q \in Users :
     /\ InRoom(q) /\ q \in synced
     /\ Len(gameState[q].users) = NumUsers - 1
     /\ gameState[q].users[1].isHost
     /\ \A i \in 2..Len(gameState[q].users) : ~gameState[q].users[i].isHost
     /\ \E h \in Users : phase[h] = "gone" /\ ~HasUser(gameState[q].users, h)

AppliesPromote(p, t) ==
  \/ promoteUser(p, t)
  \/ Receives(p, "PROMOTE_USER") /\ Head(down[p]).payload.targetUserId = t

\* C26: after PROMOTE_USER with target t is applied, the users entries
\* with id t are host and no other entry is, and the local isHost flag is
\* true exactly when the local participant is t.
C26_PromoteUser ==
  [][\A p \in Users : \A t \in Users :
        AppliesPromote(p, t) =>
           /\ \A i \in 1..Len(gameState'[p].users) :
                 gameState'[p].users[i].isHost = (gameState'[p].users[i].id = t)
           /\ currentUser'[p].isHost = (p = t)]_vars

\* the entries of a users list that carry id
EntriesWith(users, id) == {i \in 1..Len(users) : users[i].id = id}

\* C27: after an inbound SYNC_RESPONSE is applied, the local isHost flag
\* equals the isHost of the payload's users entry with the local id when
\* there is one, and is unchanged when there is none.
C27_SyncReconcile ==
  [][\A p \in Users :
        (Receives(p, "SYNC_RESPONSE") /\ ~RoomGuardDrops(gameStateRef[p], Head(down[p]))) =>
           LET users == Head(down[p]).payload.users
               mine == EntriesWith(users, currentUser[p].id)
           IN  IF mine # {}
               THEN \A i \in mine : currentUser'[p].isHost = users[i].isHost
               ELSE currentUser'[p].isHost = currentUser[p].isHost]_vars

\* replica p applies the VOTE of s with value v: its own, or an inbound one
AppliesVote(p, s, v) ==
  \/ submitVote(p, v) /\ s = currentUserRef[p].id
  \/ Receives(p, "VOTE") /\ Head(down[p]).payload = [userId |-> s, value |-> v]

\* C28: after the VOTE of s with value v is applied, votes holds v for s
\* and nothing else for s; every other vote, users, tasks, currentTaskId and
\* isRevealed are as before.
C28_VoteFrame ==
  [][\A p, s \in Users : \A v \in VoteChoices :
        AppliesVote(p, s, v) =>
           /\ VotesMap(gameState'[p]) =
                 {e \in VotesMap(gameState[p]) : e[1] # s} \cup {<<s, v>>}
           /\ Len(gameState'[p].votes) = Cardinality(VoteKeys(gameState'[p]))
           /\ gameState'[p].users = gameState[p].users
           /\ gameState'[p].tasks = gameState[p].tasks
           /\ gameState'[p].currentTaskId = gameState[p].currentTaskId
           /\ gameState'[p].isRevealed = gameState[p].isRevealed]_vars

\* a replica that holds two votes is about to apply a second VOTE of one of
\* the voters, with another value
C28_Witness ==
  \E q, s \in Users :
     /\ InRoom(q) /\ down[q] # <<>> /\ s # q
     /\ Head(down[q]).type = "VOTE" /\ Head(down[q]).payload.userId = s
     /\ VoteKeys(gameState[q]) = {q, s}
     /\ <<s, Head(down[q]).payload.value>> \notin VotesMap(gameState[q])

\* replica p applies SELECT_TASK with id t: its own, or an inbound one
AppliesSelect(p, t) ==
  \/ selectTask(p, t)
  \/ Receives(p, "SELECT_TASK") /\ Head(down[p]).payload = t

\* C29: after SELECT_TASK with id t is applied, currentTaskId is t, votes
\* is empty, isRevealed is false and the tasks list is as before.
C29_SelectTaskFrame ==
  [][\A p \in Users : \A t \in 1..MaxIntents :
        AppliesSelect(p, t) =>
           /\ gameState'[p].currentTaskId = t
           /\ gameState'[p].votes = <<>>
           /\ ~gameState'[p].isRevealed
           /\ gameState'[p].tasks = gameState[p].tasks
           /\ gameState'[p].users = gameState[p].users]_vars

\* the current task of a replica is a task that is still pending, selected
\* while the first task is still active
C29_Witness ==
  \E p \in Users : \E i, j \in 1..Len(gameState[p].tasks) :
     /\ InRoom(p) /\ i # j
     /\ gameState[p].tasks[i].id = gameState[p].currentTaskId
     /\ gameState[p].tasks[i].status = "pending"
     /\ gameState[p].tasks[j].status = "active"

\* the envelopes of participants that the relay forwards on this step
Forwarded == {m \in UNION {Arriving(q) : q \in Users} : m.type # "USER_LEFT"}

\* the connections registered at the relay in room r after this step
Registered(r) == IF r \in DOMAIN rooms' THEN rooms'[r] ELSE {}

\* C30: an envelope that the relay forwards reaches every other open
\* connection registered in the room its roomId names, and no other
\* connection: neither its sender nor a connection of another room.
C30_RelayFanOut ==
  [][/\ \A q \in Users : \A m \in Arriving(q) :
           m.type # "USER_LEFT" =>
              /\ q # m.senderId
              /\ q \in Registered(m.roomId)
              /\ readyState[q]
     /\ \A m \in Forwarded :
           \A q \in Registered(m.roomId) \ {m.senderId} :
              readyState'[q] => m \in Arriving(q)
     /\ \A p \in Users : \A v \in VoteChoices :
           submitVote(p, v) =>
              \A q \in Registered(gameStateRef[p].roomId) \ {p} :
                 readyState'[q] =>
                    Msg("VOTE", gameStateRef[p].roomId, p,
                        [userId |-> p, value |-> v]) \in Arriving(q)]_vars

\* two connections are registered in one room and a third in the other; the
\* envelope of one has reached its room mate and not the third
C30_Witness ==
  \E p, q, o \in Users :
     /\ p # q /\ InRoom(p) /\ InRoom(q) /\ InRoom(o)
     /\ currentRoom[p] = currentRoom[q]
     /\ currentRoom[o] # currentRoom[p] /\ currentRoom[o] # NullRoom
     /\ down[q] # <<>> /\ Head(down[q]).senderId = p
     /\ Head(down[q]).roomId = currentRoom[p]
     /\ down[o] = <<>> /\ gameState[o].users = <<[id |-> o, isHost |-> TRUE]>>

ActiveTasks(g) == {i \in 1..Len(g.tasks) : g.tasks[i].status = "active"}

\* C31: in every state of every replica at most one task has status
\* 'active', the tasks being those of createRoom and of addTask.
C31_OneActiveTask ==
  \A p \in Users :
     /\ Cardinality(ActiveTasks(gameState[p])) <= 1
     /\ Cardinality(ActiveTasks(gameStateRef[p])) <= 1

\* a replica holds the active task of createRoom and an added task that
\* has been selected as the current one
C31_Witness ==
  \E p \in Users :
     /\ InRoom(p)
     /\ \E i, j \in 1..Len(gameState[p].tasks) :
           /\ gameState[p].tasks[i].status = "active"
           /\ gameState[p].tasks[j].status = "pending"
           /\ gameState[p].currentTaskId = gameState[p].tasks[j].id

\* C32: a participant that is in a room, whose page is rendered and whose
\* own id is in its users list has a local isHost flag equal to the isHost
\* flag of its own entry.
C32_FlagMatchesEntry ==
  \A p \in Users :
     (InRoom(p) /\ Fresh(p) /\ currentUser[p] # NoUser) =>
        \A i \in EntriesWith(gameState[p].users, currentUser[p].id) :
           gameState[p].users[i].isHost = currentUser[p].isHost

\* the timeout of the first session of p is pending in its second session
StaleTimer(p) == InRoom(p) /\ timer[p] # NullRoom /\ currentUser[p].id = SecondId(p)

\* C33: the expiry of a join-fallback timer whose participant has left
\* that room and created another one changes neither the local isHost flag
\* nor the users list of the new session, and no envelope reaches anyone.
C33_StaleTimerInert ==
  [][\A p \in Users :
        (StaleTimer(p) /\ JoinFallback(p)) =>
           /\ currentUser'[p].isHost = currentUser[p].isHost
           /\ gameState'[p].users = gameState[p].users
           /\ \A q \in Users : Arriving(q) = {}]_vars

\* replica s has not yet applied a round change (SELECT_TASK or RESET) that
\* replica p sent, and so has applied itself
RoundChangePending(p, s) ==
  \E k \in 1..Len(down[s]) :
     /\ down[s][k].type \in {"SELECT_TASK", "RESET"}
     /\ down[s][k].senderId = p

\* C34: after a round change is applied at a replica, its votes hold only
\* votes cast after the voter applied that round change: with host and
\* member agreed on the users and on the host, no vote of a member that has
\* the host's round change still to apply is counted at the host.
C34_NoVoteOfEarlierRound ==
  \A p \in Users : \A s \in Users \ {p} :
     (/\ InRoom(p) /\ InRoom(s) /\ RoundChangePending(p, s)
      /\ Hosts(gameState[p]) = {p} /\ Hosts(gameState[s]) = {p}
      /\ UserIds(gameState[p]) = UserIds(gameState[s])) =>
        currentUser[s].id \notin VoteKeys(gameState[p])

\* replicas p and s hold the same users and the same single host
SameUsersAndHost(p, s) ==
  /\ UserIds(gameState[p]) = UserIds(gameState[s])
  /\ Hosts(gameState[p]) = Hosts(gameState[s])
  /\ Cardinality(Hosts(gameState[p])) = 1

\* C35: once isRevealed is true at a replica, a VOTE handled there does not
\* alter its votes (the voter and the replica agreed on users and host).
C35_RevealedVotesFrozen ==
  [][\A p \in Users : \A s \in Users :
        (/\ Receives(p, "VOTE") /\ Head(down[p]).senderId = s
         /\ SameUsersAndHost(p, s)
         /\ gameState[p].isRevealed) =>
           gameState'[p].votes = gameState[p].votes]_vars

\* the tasks of g that are completed with a finalScore
Scored(g) == {i \in 1..Len(g.tasks) :
                g.tasks[i].status = "completed" /\ g.tasks[i].finalScore # Undefined}

\* C36: a RESET applied at a replica leaves the finalScore of every task
\* that was already completed with a finalScore as it was, also when that
\* task has been selected again.
C36_ScoreKept ==
  [][\A p \in Users :
        AppliesReset(p) =>
           \A i \in Scored(gameState[p]) :
              gameState'[p].tasks[i].finalScore = gameState[p].tasks[i].finalScore]_vars

\* C37: every SYNC_RESPONSE transmitted in reply to a JOIN of another
\* participant lists the joiner exactly once, and no SYNC_RESPONSE is
\* transmitted in reply to a JOIN that carries the receiver's own id, be it
\* the local echo of createRoom and joinRoom or an inbound envelope.
C37_SyncListsJoiner ==
  [][\A p \in Users :
        /\ Receives(p, "JOIN") =>
              \A k \in 1..Len(Emits(p)) :
                 Emits(p)[k].type = "SYNC_RESPONSE" =>
                    /\ Head(down[p]).payload.id # currentUser[p].id
                    /\ Cardinality(EntriesWith(Emits(p)[k].payload.users,
                                               Head(down[p]).payload.id)) = 1
        /\ (\E r \in RoomCodes : createRoom(p, r) \/ joinRoom(p, r)) =>
              \A q \in Users : \A m \in Arriving(q) : m.type # "SYNC_RESPONSE"]_vars

\* the host's reply to the JOIN of a second joiner is on its way to that
\* joiner, who finds itself once among the three users of the payload
C37_Witness ==
  \E q \in Users :
     /\ InRoom(q) /\ down[q] # <<>>
     /\ Head(down[q]).type = "SYNC_RESPONSE"
     /\ Len(Head(down[q]).payload.users) = NumUsers
     /\ Cardinality(EntriesWith(Head(down[q]).payload.users, q)) = 1
     /\ HasUser(gameState[Head(down[q]).senderId].users, q)

NoDuplicateIds(g) ==
  \A i, j \in 1..Len(g.users) : g.users[i].id = g.users[j].id => i = j

\* C38: in every state of every replica no two entries of users have the
\* same id.
C38_UniqueUserIds ==
  \A p \in Users : NoDuplicateIds(gameState[p]) /\ NoDuplicateIds(gameStateRef[p])

\* a synced replica lists two users after a third one has joined and left
C38_Witness ==
  \E p \in Users : \E q \in Users \ {p} :
     /\ InRoom(p) /\ p \in synced
     /\ phase[q] = "gone" /\ q \notin UserIds(gameState[p])
     /\ Len(gameState[p].users) = NumUsers - 1
     /\ down[p] = <<>>

\* the envelope that tab p is about to handle carries another room's id
ForeignEnvelope(p) ==
  /\ gameState[p].roomId # NullRoom
  /\ Head(down[p]).roomId # gameState[p].roomId

C40_RoomsHoldOpenSockets ==
  \A r \in DOMAIN rooms :
     /\ rooms[r] # {}
     /\ \A c \in rooms[r] : readyState[c]
====
